---- MODULE Spec2Model ----
(***************************************************************************)
(* Shop lifecycle (expiry, activation, sweep on read) and rating           *)
(* aggregation of the marketplace backend.                                 *)
(*                                                                         *)
(* The store is the PostgreSQL database behind the SQLModel sessions: the  *)
(* shop, category and rating tables.  Every request handler is one action  *)
(* that runs from its first statement to its last commit.  Timestamps are  *)
(* whole days since 2024-01-01 (relativedelta keeps the time of day, so    *)
(* the day is the part month arithmetic acts on).  A mean rating is kept   *)
(* as a fraction in lowest terms.  Descriptive columns of a shop (name,    *)
(* description, phones, images, location) are written by create_shop and   *)
(* update_shop only and read by no lifecycle or rating code; they are not  *)
(* tracked.                                                                *)
(*                                                                         *)
(* The handlers fall into three groups that share no column: the shops     *)
(* router writes the lifecycle columns, the ratings router writes rating   *)
(* and rating_count, the likes router writes like_count.  A behaviour is   *)
(* explored within one group (workload): the shops router with the clock   *)
(* running, or the ratings router, or the likes router, the last two on a  *)
(* shop table that already holds rows.                                     *)
(*                                                                         *)
(* The handlers of the likes and ratings routers are also given step by    *)
(* step (a first part up to the last read, then each commit), for requests *)
(* that fail part-way or interleave; the response of list_shops is kept in *)
(* page.                                                                   *)
(***************************************************************************)
EXTENDS Integers, Sequences, FiniteSets, TLC

VARIABLES workload, now, ticks, shops, nextShopId, categories,
          ratings, nextRatingId, likes, nextLikeId, resp, page, txs,
          nextCategoryId, query, codes, accounts

vars == <<workload, now, ticks, shops, nextShopId, categories,
          ratings, nextRatingId, likes, nextLikeId, resp, page, txs,
          nextCategoryId, query, codes, accounts>>

(* The state that only the categories router, the paged listing and the
   auth router write. *)
rest == <<nextCategoryId, query, codes, accounts>>

----------------------------------------------------------------------------
(* Bounds of the model. *)

MaxShops == 2
MaxUsers == 2
MaxMonths == 1
MaxTicks == 1
MaxRatingId == 2
MaxLikeId == 3
MaxInFlight == 2
MaxCategoryId == 2
MaxSkip == 2
MaxCodeRows == 2
CodeMinutes == 2
MaxLimit == 2
StepMonth == 29

(* Program constants. *)

DefaultExpirationMonths == 12
SeedRatingCount == 25
SeedLikeCount == 12
EpochYear == 2024
StartDay == 30

NULL == 0 - 1

(* A field the request body leaves out. *)
Unset == 0 - 2

Users == 1 .. MaxUsers
(* Ids a request may name: those create_shop hands out, and one more that
   no shop ever has. *)
ShopIds == 1 .. MaxShops
RequestedShopIds == 1 .. (MaxShops + 1)
CategoryIds == 1 .. MaxCategoryId
Months == (1 .. MaxMonths) \cup {DefaultExpirationMonths}
RatingValues == {2, 4}
(* Optional[bool] query parameter: absent, or one value. *)
IsActiveParams == {<<>>, <<TRUE>>, <<FALSE>>}
(* Requests in flight at once, where handlers run step by step. *)
Slots == 1 .. MaxInFlight

(* UserRole: the admin created at startup is user 1, the others are clients. *)
Role(u) == IF u = 1 THEN "admin" ELSE "client"

----------------------------------------------------------------------------
(* Calendar: relativedelta(months=n) added to a datetime. *)

IsLeap(y) == (y % 4 = 0 /\ y % 100 # 0) \/ y % 400 = 0

DaysInMonth(y, m) ==
    IF m = 2 THEN (IF IsLeap(y) THEN 29 ELSE 28)
    ELSE IF m \in {4, 6, 9, 11} THEN 30 ELSE 31

(* k-th month since January of EpochYear, k = 0, 1, ... *)
MonthLen(k) == DaysInMonth(EpochYear + (k \div 12), (k % 12) + 1)

RECURSIVE MonthStart(_)
MonthStart(k) == IF k = 0 THEN 0 ELSE MonthStart(k - 1) + MonthLen(k - 1)

RECURSIVE MonthOfFrom(_, _)
MonthOfFrom(day, k) ==
    IF day < MonthStart(k + 1) THEN k ELSE MonthOfFrom(day, k + 1)

MonthOf(day) == MonthOfFrom(day, 0)

Min(a, b) == IF a <= b THEN a ELSE b

(* t + relativedelta(months=n): the month moves by n, the day of the month
   is kept unless the target month is shorter, then it is the last day. *)
AddMonths(t, n) ==
    LET k == MonthOf(t)
        d == t - MonthStart(k) + 1
        j == k + n
    IN  MonthStart(j) + Min(d, MonthLen(j)) - 1

----------------------------------------------------------------------------
(* Mean of integer ratings as a fraction <<num, den>> in lowest terms. *)

RECURSIVE Gcd(_, _)
Gcd(a, b) == IF b = 0 THEN a ELSE Gcd(b, a % b)

Frac(n, d) == LET g == Gcd(n, d) IN <<n \div g, d \div g>>

Zero == <<0, 1>>

RowsOf(rs, s) == {r \in DOMAIN rs : rs[r].shop_id = s}

RECURSIVE SumRatings(_, _)
SumRatings(rs, ids) ==
    IF ids = {} THEN 0
    ELSE LET r == CHOOSE x \in ids : TRUE
         IN  rs[r].rating + SumRatings(rs, ids \ {r})

(* select(func.avg(Rating.rating)).where(Rating.shop_id == shop.id) ... or 0 *)
AvgOrZero(rs, s) ==
    LET ids == RowsOf(rs, s)
    IN  IF ids = {} THEN Zero ELSE Frac(SumRatings(rs, ids), Cardinality(ids))

----------------------------------------------------------------------------
(* Shop rows.  activated_at is not a column: it records the time of the
   row's last activation event (its creation or its last activate_shop). *)

(* Shop.is_expired / Shop.is_available, evaluated at time t. *)
is_expired(shop, t) == IF shop.expires_at = NULL THEN FALSE ELSE t > shop.expires_at

is_available(shop, t) == shop.is_active /\ ~is_expired(shop, t)

(* A row holding the column defaults of the Shop model. *)
DefaultShop(t, c) ==
    [is_active |-> TRUE, is_featured |-> FALSE,
     expiration_months |-> DefaultExpirationMonths, expires_at |-> NULL,
     created_at |-> t, updated_at |-> t, activated_at |-> t,
     rating |-> Zero, rating_count |-> 0, like_count |-> 0, category_id |-> c]

(* A row as the seed script inserts it. *)
SeededShop(t, c) ==
    [is_active |-> TRUE, is_featured |-> TRUE,
     expiration_months |-> DefaultExpirationMonths,
     expires_at |-> AddMonths(t, DefaultExpirationMonths),
     created_at |-> t, updated_at |-> t, activated_at |-> t,
     rating |-> <<9, 2>>, rating_count |-> SeedRatingCount,
     like_count |-> SeedLikeCount, category_id |-> c]

(* The row create_shop inserts. *)
NewShop(t, m, c) ==
    [is_active |-> TRUE, is_featured |-> FALSE,
     expiration_months |-> m, expires_at |-> AddMonths(t, m),
     created_at |-> t, updated_at |-> t, activated_at |-> t,
     rating |-> Zero, rating_count |-> 0, like_count |-> 0, category_id |-> c]

Response(op, status) == [op |-> op, status |-> status]

(* The body of a response that is not a list of shops. *)
NoPage == <<>>

(* ShopRead.from_shop, built at time t: the stored columns and the two
   computed properties. *)
ShopRead(shop, t) ==
    [is_active |-> shop.is_active, is_expired |-> is_expired(shop, t),
     is_available |-> is_available(shop, t), is_featured |-> shop.is_featured,
     expiration_months |-> shop.expiration_months, expires_at |-> shop.expires_at,
     created_at |-> shop.created_at, updated_at |-> shop.updated_at,
     rating |-> shop.rating, rating_count |-> shop.rating_count,
     like_count |-> shop.like_count, category_id |-> shop.category_id]

(* A request slot that holds no request. *)
NoTx == [op |-> "none"]

(* No paged listing has been asked for. *)
NoQuery == [sort_by |-> "none"]

(* The rows the sweep selects. *)
SweepSelectsStrict(shop, t) ==
    shop.is_active /\ shop.expires_at # NULL /\ shop.expires_at < t

SweepSelectsNull(shop, t) ==
    shop.is_active /\ shop.expires_at <= t

SweepSelects(shop, t) ==
    shop.is_active /\ shop.expires_at # NULL /\ shop.expires_at <= t

SweepNothing(sh, t) == sh

SweepTouches(sh, t) ==
    [s \in DOMAIN sh |->
        IF SweepSelects(sh[s], t)
        THEN [sh[s] EXCEPT !.is_active = FALSE, !.updated_at = t] ELSE sh[s]]

(* auto_deactivate_expired_shops *)
Sweep(sh, t) ==
    [s \in DOMAIN sh |->
        IF SweepSelects(sh[s], t) THEN [sh[s] EXCEPT !.is_active = FALSE] ELSE sh[s]]

----------------------------------------------------------------------------
(* Initial states. *)

InitCommon ==
    /\ now = StartDay
    /\ ticks = 0
    /\ categories = {1}
    /\ ratings = <<>>
    /\ nextRatingId = 1
    /\ likes = <<>>
    /\ nextLikeId = 1
    /\ resp = Response("none", 0)
    /\ page = NoPage
    /\ txs = [i \in Slots |-> NoTx]
    /\ nextCategoryId = 2
    /\ query = NoQuery
    /\ codes = <<>>
    /\ accounts = <<>>

(* Shops workload: an empty shop table, or one row with the model's
   defaults (expires_at NULL) that was inserted some time ago. *)
InitShops ==
    /\ workload = "shops"
    /\ \/ shops = <<>> /\ nextShopId = 1
       \/ shops = (1 :> DefaultShop(StartDay - StepMonth, 1)) /\ nextShopId = 2

(* Ratings and likes workloads: shop 1 as the seed script inserts it, shop 2
   as create_shop inserts it and deactivate_shop leaves it. *)
SeedShopId == 1

InitPublic ==
    /\ workload \in {"ratings", "likes"}
    /\ shops = (SeedShopId :> SeededShop(StartDay, 1)) @@
               (2 :> [NewShop(StartDay, 1, 1) EXCEPT !.is_active = FALSE])
    /\ nextShopId = 3

Init == InitCommon /\ (InitShops \/ InitPublic)

----------------------------------------------------------------------------
(* Requests of the shops router (admin only, except the two reads). *)

(* Time passes between two requests. *)
Tick ==
    /\ workload \in {"shops", "auth"}
    /\ ticks < MaxTicks
    /\ now' = now + StepMonth
    /\ ticks' = ticks + 1
    /\ UNCHANGED <<workload, shops, nextShopId, categories,
                   ratings, nextRatingId, likes, nextLikeId, resp, page, txs, rest>>

(* The response of a handler that runs from start to end in one step. *)
Answer(op, status, body) ==
    /\ resp' = Response(op, status)
    /\ page' = body
    /\ UNCHANGED <<workload, now, ticks, categories, txs, rest>>

Reply(op, status) == Answer(op, status, NoPage)

create_shop(u, c, m) ==
    /\ Reply("create_shop",
             IF Role(u) # "admin" THEN 403
             ELSE IF c \notin categories THEN 404 ELSE 200)
    /\ IF Role(u) = "admin" /\ c \in categories
       THEN /\ nextShopId <= MaxShops
            /\ shops' = shops @@ (nextShopId :> NewShop(now, m, c))
            /\ nextShopId' = nextShopId + 1
       ELSE UNCHANGED <<shops, nextShopId>>
    /\ UNCHANGED <<ratings, nextRatingId, likes, nextLikeId>>

(* The row update_shop writes back.  ShopUpdate.as_form passes every field
   to the constructor, expiration_months included (12 when the form leaves
   it out), so "expiration_months" is always in update_data. *)
UpdatedReactivates(shop, m, c, t) ==
    [shop EXCEPT !.is_active = TRUE,
                 !.expiration_months = m,
                 !.expires_at = AddMonths(shop.created_at, m),
                 !.category_id = c,
                 !.updated_at = t]

Updated(shop, m, c, t) ==
    [shop EXCEPT !.expiration_months = m,
                 !.expires_at = AddMonths(shop.created_at, m),
                 !.category_id = c,
                 !.updated_at = t]

(* ShopUpdate.as_form: the value of the form field expiration_months, m,
   or its default when the request leaves the field out. *)
as_form(m) == IF m = Unset THEN DefaultExpirationMonths ELSE m

update_shop(u, s, c, m) ==
    LET status == IF Role(u) # "admin" THEN 403
                  ELSE IF s \notin DOMAIN shops THEN 404
                  ELSE IF c \notin categories THEN 404 ELSE 200
    IN  /\ Reply("update_shop", status)
        /\ IF status = 200
           THEN shops' = [shops EXCEPT ![s] = Updated(@, as_form(m), c, now)]
           ELSE UNCHANGED shops
        /\ UNCHANGED <<nextShopId, ratings, nextRatingId, likes, nextLikeId>>

toggle_shop_featured(u, s, f) ==
    LET status == IF Role(u) # "admin" THEN 403
                  ELSE IF s \notin DOMAIN shops THEN 404 ELSE 200
    IN  /\ Reply("toggle_shop_featured", status)
        /\ IF status = 200
           THEN shops' = [shops EXCEPT ![s] =
                    [@ EXCEPT !.is_featured = f, !.updated_at = now]]
           ELSE UNCHANGED shops
        /\ UNCHANGED <<nextShopId, ratings, nextRatingId, likes, nextLikeId>>

(* The row activate_shop writes back. *)
ActivatedFromCreation(shop, m, t) ==
    [shop EXCEPT !.is_active = TRUE,
                 !.expiration_months = m,
                 !.expires_at = AddMonths(shop.created_at, m),
                 !.updated_at = t,
                 !.activated_at = t]

Activated(shop, m, t) ==
    [shop EXCEPT !.is_active = TRUE,
                 !.expiration_months = m,
                 !.expires_at = AddMonths(t, m),
                 !.updated_at = t,
                 !.activated_at = t]

activate_shop(u, s, m) ==
    LET status == IF Role(u) # "admin" THEN 403
                  ELSE IF s \notin DOMAIN shops THEN 404 ELSE 200
    IN  /\ Reply("activate_shop", status)
        /\ IF status = 200
           THEN shops' = [shops EXCEPT ![s] = Activated(@, m, now)]
           ELSE UNCHANGED shops
        /\ UNCHANGED <<nextShopId, ratings, nextRatingId, likes, nextLikeId>>

deactivate_shopAnyone(u, s) ==
    LET status == IF s \notin DOMAIN shops THEN 404 ELSE 200
    IN  /\ Reply("deactivate_shop", status)
        /\ IF status = 200
           THEN shops' = [shops EXCEPT ![s] =
                    [@ EXCEPT !.is_active = FALSE, !.updated_at = now]]
           ELSE UNCHANGED shops
        /\ UNCHANGED <<nextShopId, ratings, nextRatingId, likes, nextLikeId>>

deactivate_shopClearsExpiry(u, s) ==
    LET status == IF Role(u) # "admin" THEN 403
                  ELSE IF s \notin DOMAIN shops THEN 404 ELSE 200
    IN  /\ Reply("deactivate_shop", status)
        /\ IF status = 200
           THEN shops' = [shops EXCEPT ![s] =
                    [@ EXCEPT !.is_active = FALSE, !.updated_at = now,
                              !.expires_at = NULL]]
           ELSE UNCHANGED shops
        /\ UNCHANGED <<nextShopId, ratings, nextRatingId, likes, nextLikeId>>

deactivate_shop(u, s) ==
    LET status == IF Role(u) # "admin" THEN 403
                  ELSE IF s \notin DOMAIN shops THEN 404 ELSE 200
    IN  /\ Reply("deactivate_shop", status)
        /\ IF status = 200
           THEN shops' = [shops EXCEPT ![s] =
                    [@ EXCEPT !.is_active = FALSE, !.updated_at = now]]
           ELSE UNCHANGED shops
        /\ UNCHANGED <<nextShopId, ratings, nextRatingId, likes, nextLikeId>>

(* The rating and like tables reference shop.id; PostgreSQL refuses the
   delete of a shop that still has such rows and the request fails. *)
delete_shop(u, s) ==
    LET status == IF Role(u) # "admin" THEN 403
                  ELSE IF s \notin DOMAIN shops THEN 404
                  ELSE IF RowsOf(ratings, s) # {} \/ RowsOf(likes, s) # {} THEN 500
                  ELSE 200
    IN  /\ Reply("delete_shop", status)
        /\ IF status = 200
           THEN shops' = [x \in DOMAIN shops \ {s} |-> shops[x]]
           ELSE UNCHANGED shops
        /\ UNCHANGED <<nextShopId, ratings, nextRatingId, likes, nextLikeId>>

(* The query list_shops builds: a is the is_active parameter (<<>> when the
   request has none, else <<b>>), c the category_id parameter (NULL when the
   request has none).  The other filters (featured, search) are not given
   and the page (skip 0, limit 10) holds every row of the small table. *)
ListedAnyState(sh, a, c) ==
    {s \in DOMAIN sh : c = NULL \/ sh[s].category_id = c}

Listed(sh, a, c) ==
    {s \in DOMAIN sh :
        /\ sh[s].is_active = (IF a = <<>> THEN TRUE ELSE a[1])
        /\ (c = NULL \/ sh[s].category_id = c)}

(* The two reads run the sweep first; the sweep's commit stands whatever
   the read then answers. *)
list_shops(a, c) ==
    LET swept == Sweep(shops, now)
    IN  /\ Answer("list_shops", 200,
                  [s \in Listed(swept, a, c) |-> ShopRead(swept[s], now)])
        /\ shops' = swept
        /\ UNCHANGED <<nextShopId, ratings, nextRatingId, likes, nextLikeId>>

get_shop(s) ==
    /\ Reply("get_shop", IF s \in DOMAIN shops THEN 200 ELSE 404)
    /\ shops' = Sweep(shops, now)
    /\ UNCHANGED <<nextShopId, ratings, nextRatingId, likes, nextLikeId>>

(* ORDER BY, OFFSET and LIMIT of list_shops. *)
SortFields == {"rating", "like_count"}

SortOrders == {"asc", "desc"}

is_default_sort(f, o) == f = "rating" /\ o = "desc"

(* The value of column f of one row is not above that of the other; a
   rating is a fraction. *)
NotAbove(a, b, f) ==
    IF f = "rating"
    THEN a.rating[1] * b.rating[2] <= b.rating[1] * a.rating[2]
    ELSE a[f] <= b[f]

Perms(ids) ==
    {q \in [1 .. Cardinality(ids) -> ids] :
        \A i, j \in 1 .. Cardinality(ids) : i # j => q[i] # q[j]}

(* The orders in which the store may return the rows of ids: any order for
   ORDER BY random(), and for ORDER BY column [DESC] any order that is
   monotone in the column, rows with equal values in either order. *)
Orderings(sh, ids, f, o) ==
    IF is_default_sort(f, o) THEN Perms(ids)
    ELSE {q \in Perms(ids) :
             \A i, j \in 1 .. Cardinality(ids) :
                 i < j => IF o = "asc" THEN NotAbove(sh[q[i]], sh[q[j]], f)
                                       ELSE NotAbove(sh[q[j]], sh[q[i]], f)}

(* query.offset(skip).limit(limit) *)
Window(q, skip, limit) == SubSeq(q, skip + 1, Min(skip + limit, Len(q)))

(* list_shops with its sort and paging parameters (no filter but the
   default is_active one).  query records the request, the ids returned in
   their order, and what the client has seen so far: previous is the answer
   to the request before when that had the same parameters; seen is the
   concatenation of the pages of a run skip = 0, limit, 2 * limit, ... *)
list_shops_paged(f, o, skip, limit) ==
    LET swept    == Sweep(shops, now)
        ids      == Listed(swept, <<>>, NULL)
        asked    == query.sort_by # "none"
        repeats  == asked /\ query.sort_by = f /\ query.sort_order = o
                          /\ query.skip = skip /\ query.limit = limit
        follows  == asked /\ query.sort_by = f /\ query.sort_order = o
                          /\ query.limit = limit /\ query.paging
                          /\ skip = query.skip + limit
    IN  \E q \in Orderings(swept, ids, f, o) :
            LET result == Window(q, skip, limit)
            IN  /\ resp' = Response("list_shops", 200)
                /\ page' = [s \in {result[i] : i \in DOMAIN result} |->
                                ShopRead(swept[s], now)]
                /\ query' = [sort_by |-> f, sort_order |-> o, skip |-> skip,
                             limit |-> limit, ids |-> result,
                             repeats |-> repeats,
                             previous |-> IF repeats THEN query.ids ELSE <<>>,
                             paging |-> skip = 0 \/ follows,
                             seen |-> IF skip = 0 THEN result
                                      ELSE IF follows THEN query.seen \o result
                                      ELSE <<>>]
                /\ shops' = swept
                /\ UNCHANGED <<workload, now, ticks, categories, txs, nextShopId,
                               ratings, nextRatingId, likes, nextLikeId,
                               nextCategoryId, codes, accounts>>

(* The shop table after a sweep in which the store failed when the loop had
   flagged the rows of done (none when the SELECT failed, all of them when
   the commit failed): except: session.rollback(). *)
FailedSweepPerRow(sh, done) ==
    [s \in DOMAIN sh |->
        IF s \in done THEN [sh[s] EXCEPT !.is_active = FALSE] ELSE sh[s]]

FailedSweep(sh, done) == sh

(* A read (op) whose sweep meets a storage fault: the sweep rolls back and
   raises again, no handler catches it. *)
sweep_fault(op, done) ==
    /\ done \subseteq {s \in DOMAIN shops : SweepSelects(shops[s], now)}
    /\ Reply(op, 500)
    /\ shops' = FailedSweep(shops, done)
    /\ UNCHANGED <<nextShopId, ratings, nextRatingId, likes, nextLikeId>>

----------------------------------------------------------------------------
(* Requests of the categories router that write (admin only). *)

ReplyCategory(op, status) ==
    /\ resp' = Response(op, status)
    /\ page' = NoPage
    /\ UNCHANGED <<workload, now, ticks, txs, shops, nextShopId, ratings,
                   nextRatingId, likes, nextLikeId, query, codes, accounts>>

(* taken: the name of the request is the name of a category that exists;
   Category.name is unique and the INSERT fails.  The id sequence moves on
   either way. *)
create_category(u, taken) ==
    LET status == IF Role(u) # "admin" THEN 403
                  ELSE IF taken THEN 500 ELSE 200
    IN  /\ taken => categories # {}
        /\ ReplyCategory("create_category", status)
        /\ IF status = 403
           THEN UNCHANGED <<categories, nextCategoryId>>
           ELSE /\ nextCategoryId <= MaxCategoryId
                /\ nextCategoryId' = nextCategoryId + 1
                /\ categories' = IF status = 200
                                  THEN categories \cup {nextCategoryId}
                                  ELSE categories

delete_categoryUnchecked(u, c) ==
    LET status == IF Role(u) # "admin" THEN 403
                  ELSE IF c \notin categories THEN 404 ELSE 200
    IN  /\ ReplyCategory("delete_category", status)
        /\ categories' = IF status = 200 THEN categories \ {c} ELSE categories
        /\ UNCHANGED nextCategoryId

(* shop.category_id references category.id: PostgreSQL refuses the DELETE
   of a category that a shop still references and the commit fails. *)
delete_category(u, c) ==
    LET status == IF Role(u) # "admin" THEN 403
                  ELSE IF c \notin categories THEN 404
                  ELSE IF \E s \in DOMAIN shops : shops[s].category_id = c THEN 500
                  ELSE 200
    IN  /\ ReplyCategory("delete_category", status)
        /\ categories' = IF status = 200 THEN categories \ {c} ELSE categories
        /\ UNCHANGED nextCategoryId

----------------------------------------------------------------------------
(* Requests of the auth router.  Both handlers are coroutines that never
   await: each runs from start to end before another request is served. *)

(* Two logins the router accepts (an e-mail address, a phone number) and one
   it does not; the codes generate_code may draw. *)
Logins == {"a@b.uz", "+998901234567"}

RequestedLogins == Logins \cup {"a"}

CodeValues == {"000000", "000001"}

(* A time some minutes after the instant day t. *)
After(t, minutes) == [day |-> t, minutes |-> minutes]

(* VerificationCode.expires_at > datetime.utcnow(), at the instant day t. *)
Later(at, t) == at.day > t \/ (at.day = t /\ at.minutes > 0)

ReplyAuth(op, status) ==
    /\ resp' = Response(op, status)
    /\ page' = NoPage
    /\ UNCHANGED <<workload, now, ticks, txs, categories, nextCategoryId, shops,
                   nextShopId, ratings, nextRatingId, likes, nextLikeId, query>>

(* code: what generate_code drew.  Rows are kept in the order of their
   created_at. *)
request_code(login, code) ==
    IF login \notin Logins
    THEN ReplyAuth("request_code", 400) /\ UNCHANGED <<codes, accounts>>
    ELSE /\ Len(codes) < MaxCodeRows
         /\ ReplyAuth("request_code", 200)
         /\ codes' = Append(codes, [login |-> login, code |-> code,
                                    expires_at |-> After(now, CodeMinutes),
                                    is_used |-> FALSE])
         /\ UNCHANGED accounts

MatchingAnyUse(rows, login, code, t) ==
    {i \in DOMAIN rows :
        /\ rows[i].login = login
        /\ rows[i].code = code
        /\ Later(rows[i].expires_at, t)}

(* The rows the statement of verify_code_and_get_user selects. *)
Matching(rows, login, code, t) ==
    {i \in DOMAIN rows :
        /\ rows[i].login = login
        /\ rows[i].code = code
        /\ ~rows[i].is_used
        /\ Later(rows[i].expires_at, t)}

(* order_by(created_at.desc()) ... first() *)
Latest(ids) == CHOOSE i \in ids : \A j \in ids : j <= i

verify_code(login, code) ==
    LET found == Matching(codes, login, code, now)
    IN  IF found = {}
        THEN ReplyAuth("verify_code", 400) /\ UNCHANGED <<codes, accounts>>
        ELSE /\ ReplyAuth("verify_code", 200)
             /\ codes' = [codes EXCEPT ![Latest(found)].is_used = TRUE]
             /\ accounts' =
                    IF \E a \in DOMAIN accounts : accounts[a].login = login
                    THEN accounts
                    ELSE Append(accounts, [login |-> login, role |-> "client",
                                           is_verified |-> TRUE])

----------------------------------------------------------------------------
(* Requests of the ratings router (any authenticated user). *)

HasRatedNever(u, s) == FALSE

(* The existence check of create_rating. *)
HasRated(u, s) == \E r \in DOMAIN ratings :
                      ratings[r].user_id = u /\ ratings[r].shop_id = s

RatingAccessAdmin(u, r) ==
    IF r \notin DOMAIN ratings THEN 404
    ELSE IF ratings[r].user_id # u /\ Role(u) # "admin" THEN 403 ELSE 0

(* The lookup and the ownership check that open update_rating and
   delete_rating: the status of the rejection, 0 when the request goes on. *)
RatingAccess(u, r) ==
    IF r \notin DOMAIN ratings THEN 404
    ELSE IF ratings[r].user_id # u THEN 403 ELSE 0

(* The shop row create_rating writes: the average is queried before the new
   Rating is added to the session, so it is the average of the rows that
   were already there. *)
RatedShop(shop, rs, s) ==
    [shop EXCEPT !.rating = AvgOrZero(rs, s), !.rating_count = @ + 1]

create_rating(u, s, v) ==
    LET status == IF HasRated(u, s) THEN 400
                  ELSE IF s \notin DOMAIN shops THEN 500 ELSE 201
    IN  /\ Reply("create_rating", status)
        /\ IF status = 201
           THEN /\ nextRatingId <= MaxRatingId
                /\ shops' = [shops EXCEPT ![s] = RatedShop(@, ratings, s)]
                /\ ratings' = ratings @@
                       (nextRatingId :> [user_id |-> u, shop_id |-> s, rating |-> v])
                /\ nextRatingId' = nextRatingId + 1
           ELSE UNCHANGED <<shops, ratings, nextRatingId>>
        /\ UNCHANGED <<nextShopId, likes, nextLikeId>>

update_ratingStale(u, r, v) ==
    LET status == IF RatingAccess(u, r) # 0 THEN RatingAccess(u, r)
                  ELSE IF v = NULL THEN 500 ELSE 200
        rs     == IF v = Unset THEN ratings
                  ELSE [ratings EXCEPT ![r].rating = v]
    IN  /\ Reply("update_rating", status)
        /\ IF status = 200
           THEN /\ ratings' = rs
                /\ LET s == ratings[r].shop_id
                   IN  IF s \in DOMAIN shops
                       THEN shops' = [shops EXCEPT ![s].rating = AvgOrZero(ratings, s)]
                       ELSE UNCHANGED shops
           ELSE UNCHANGED <<shops, ratings>>
        /\ UNCHANGED <<nextShopId, nextRatingId, likes, nextLikeId>>

(* rating_update.dict(exclude_unset=True): v is a rating, Unset for a body
   without rating, or NULL for a body with "rating": null.  The changed row
   is flushed before the average is queried; rating is NOT NULL, so the
   flush of a null rating fails and the request with it. *)
update_rating(u, r, v) ==
    LET status == IF RatingAccess(u, r) # 0 THEN RatingAccess(u, r)
                  ELSE IF v = NULL THEN 500 ELSE 200
        rs     == IF v = Unset THEN ratings
                  ELSE [ratings EXCEPT ![r].rating = v]
    IN  /\ Reply("update_rating", status)
        /\ IF status = 200
           THEN /\ ratings' = rs
                /\ LET s == ratings[r].shop_id
                   IN  IF s \in DOMAIN shops
                       THEN shops' = [shops EXCEPT ![s].rating = AvgOrZero(rs, s)]
                       ELSE UNCHANGED shops
           ELSE UNCHANGED <<shops, ratings>>
        /\ UNCHANGED <<nextShopId, nextRatingId, likes, nextLikeId>>

(* The shop row delete_rating writes after the deletion is committed. *)
UnratedShopKeepsCount(shop, rs, s) ==
    [shop EXCEPT !.rating = AvgOrZero(rs, s)]

UnratedShopKeepsRating(shop, rs, s) ==
    [shop EXCEPT !.rating_count = @ - 1]

UnratedShop(shop, rs, s) ==
    [shop EXCEPT !.rating = AvgOrZero(rs, s), !.rating_count = @ - 1]

delete_rating(u, r) ==
    LET status == IF RatingAccess(u, r) # 0 THEN RatingAccess(u, r) ELSE 204
        rs     == [x \in DOMAIN ratings \ {r} |-> ratings[x]]
    IN  /\ Reply("delete_rating", status)
        /\ IF status = 204 /\ ratings[r].shop_id \in DOMAIN shops
           THEN /\ ratings' = rs
                /\ LET s == ratings[r].shop_id
                   IN  shops' = [shops EXCEPT ![s] = UnratedShop(@, rs, s)]
           ELSE UNCHANGED <<shops, ratings>>
        /\ UNCHANGED <<nextShopId, nextRatingId, likes, nextLikeId>>

----------------------------------------------------------------------------
(* Requests of the likes router (any authenticated user). *)

HasLiked(u, s) == \E l \in DOMAIN likes :
                     likes[l].user_id = u /\ likes[l].shop_id = s

(* The Like is added to the session before the shop is looked up; the lookup
   flushes the INSERT, which the foreign key refuses when the shop is missing. *)
create_like(u, s) ==
    LET status == IF HasLiked(u, s) THEN 400
                  ELSE IF s \notin DOMAIN shops THEN 500 ELSE 200
    IN  /\ Reply("create_like", status)
        /\ IF status = 200
           THEN /\ nextLikeId <= MaxLikeId
                /\ likes' = likes @@ (nextLikeId :> [user_id |-> u, shop_id |-> s])
                /\ nextLikeId' = nextLikeId + 1
                /\ shops' = [shops EXCEPT ![s].like_count = @ + 1]
           ELSE UNCHANGED <<shops, likes, nextLikeId>>
        /\ UNCHANGED <<nextShopId, ratings, nextRatingId>>

delete_likeKeepsCount(u, l) ==
    LET status == IF l \notin DOMAIN likes THEN 404
                  ELSE IF likes[l].user_id # u /\ Role(u) # "admin" THEN 403
                  ELSE 200
    IN  /\ Reply("delete_like", status)
        /\ IF status = 200
           THEN likes' = [x \in DOMAIN likes \ {l} |-> likes[x]]
           ELSE UNCHANGED likes
        /\ UNCHANGED <<shops, nextShopId, ratings, nextRatingId, nextLikeId>>

delete_like(u, l) ==
    LET status == IF l \notin DOMAIN likes THEN 404
                  ELSE IF likes[l].user_id # u /\ Role(u) # "admin" THEN 403
                  ELSE 200
    IN  /\ Reply("delete_like", status)
        /\ IF status = 200
           THEN /\ likes' = [x \in DOMAIN likes \ {l} |-> likes[x]]
                /\ LET s == likes[l].shop_id
                   IN  IF s \in DOMAIN shops
                       THEN shops' = [shops EXCEPT ![s].like_count = @ - 1]
                       ELSE UNCHANGED shops
           ELSE UNCHANGED <<shops, likes>>
        /\ UNCHANGED <<nextShopId, ratings, nextRatingId, nextLikeId>>

----------------------------------------------------------------------------
(* The handlers of the likes and ratings routers step by step: a request
   holds a slot from its first query to its last commit.
   The store is PostgreSQL at its default isolation (read committed): a
   query sees what is committed when it runs, a flushed INSERT or DELETE is
   seen by others at the commit, and the UPDATE of a shop writes the value
   the handler computed from the row it read. *)

Idle(i) == txs[i] = NoTx

AllIdle == \A i \in Slots : Idle(i)

(* A step that ends the request of slot i with a response. *)
End(i, op, status) ==
    /\ txs' = [txs EXCEPT ![i] = NoTx]
    /\ resp' = Response(op, status)
    /\ UNCHANGED <<workload, now, ticks, categories, nextShopId, page, rest>>

(* A step after which the request of slot i is still running. *)
Hold(i, tx) ==
    /\ txs' = [txs EXCEPT ![i] = tx]
    /\ UNCHANGED <<workload, now, ticks, categories, nextShopId, page, resp, rest>>

(* create_like up to the shop lookup: the existence check, then the INSERT
   that the lookup flushes (it takes the next id; the foreign key refuses it
   when the shop is missing), then the read of the shop row. *)
create_like_begin(i, u, s) ==
    /\ Idle(i)
    /\ IF HasLiked(u, s)
       THEN End(i, "create_like", 400) /\ UNCHANGED nextLikeId
       ELSE /\ nextLikeId <= MaxLikeId
            /\ nextLikeId' = nextLikeId + 1
            /\ IF s \notin DOMAIN shops
               THEN End(i, "create_like", 500)
               ELSE Hold(i, [op |-> "create_like", id |-> nextLikeId, user_id |-> u,
                             shop_id |-> s, like_count |-> shops[s].like_count])
    /\ UNCHANGED <<shops, likes, ratings, nextRatingId>>

(* shop.like_count += 1 on the row as it was read, and the commit. *)
create_like_commit(i) ==
    /\ txs[i].op = "create_like"
    /\ LET tx == txs[i]
       IN  /\ likes' = likes @@
                   (tx.id :> [user_id |-> tx.user_id, shop_id |-> tx.shop_id])
           /\ shops' = [shops EXCEPT ![tx.shop_id].like_count = tx.like_count + 1]
    /\ End(i, "create_like", 200)
    /\ UNCHANGED <<ratings, nextRatingId, nextLikeId>>

(* delete_like up to the shop lookup.  The lookup flushes the DELETE, which
   waits while another request has deleted the same row and not committed:
   the request is taken up when no such request is in flight. *)
delete_like_begin(i, u, l) ==
    /\ Idle(i)
    /\ \A j \in Slots : ~(txs[j].op = "delete_like" /\ txs[j].id = l)
    /\ IF l \notin DOMAIN likes THEN End(i, "delete_like", 404)
       ELSE IF likes[l].user_id # u /\ Role(u) # "admin"
       THEN End(i, "delete_like", 403)
       ELSE Hold(i, [op |-> "delete_like", id |-> l, shop_id |-> likes[l].shop_id,
                     like_count |-> IF likes[l].shop_id \in DOMAIN shops
                                    THEN shops[likes[l].shop_id].like_count
                                    ELSE NULL])
    /\ UNCHANGED <<shops, likes, nextLikeId, ratings, nextRatingId>>

delete_like_commit(i) ==
    /\ txs[i].op = "delete_like"
    /\ LET tx == txs[i]
       IN  /\ likes' = [x \in DOMAIN likes \ {tx.id} |-> likes[x]]
           /\ IF tx.like_count # NULL
              THEN shops' = [shops EXCEPT ![tx.shop_id].like_count = tx.like_count - 1]
              ELSE UNCHANGED shops
    /\ End(i, "delete_like", 200)
    /\ UNCHANGED <<ratings, nextRatingId, nextLikeId>>

(* create_rating up to session.add(db_rating): the existence check, the
   read of the shop row and the average of the committed rows.  Without the
   shop nothing is computed and the commit's INSERT fails on the foreign
   key. *)
create_rating_begin(i, u, s, v) ==
    /\ Idle(i)
    /\ IF HasRated(u, s) THEN End(i, "create_rating", 400)
       ELSE IF s \notin DOMAIN shops THEN End(i, "create_rating", 500)
       ELSE Hold(i, [op |-> "create_rating", user_id |-> u, shop_id |-> s,
                     rating |-> v, avg |-> AvgOrZero(ratings, s),
                     rating_count |-> shops[s].rating_count])
    /\ UNCHANGED <<shops, ratings, nextRatingId, likes, nextLikeId>>

(* The commit of create_rating: the INSERT and the UPDATE of the shop. *)
create_rating_commit(i) ==
    /\ txs[i].op = "create_rating"
    /\ nextRatingId <= MaxRatingId
    /\ LET tx == txs[i]
       IN  /\ ratings' = ratings @@
                   (nextRatingId :> [user_id |-> tx.user_id, shop_id |-> tx.shop_id,
                                     rating |-> tx.rating])
           /\ shops' = [shops EXCEPT ![tx.shop_id] =
                   [@ EXCEPT !.rating = tx.avg, !.rating_count = tx.rating_count + 1]]
    /\ nextRatingId' = nextRatingId + 1
    /\ End(i, "create_rating", 201)
    /\ UNCHANGED <<likes, nextLikeId>>

(* delete_rating up to its first commit ("Commit the deletion first"). *)
delete_rating_begin(i, u, r) ==
    /\ Idle(i)
    /\ IF RatingAccess(u, r) # 0
       THEN End(i, "delete_rating", RatingAccess(u, r)) /\ UNCHANGED ratings
       ELSE IF ratings[r].shop_id \notin DOMAIN shops
       THEN End(i, "delete_rating", 204) /\ UNCHANGED ratings
       ELSE /\ ratings' = [x \in DOMAIN ratings \ {r} |-> ratings[x]]
            /\ Hold(i, [op |-> "delete_rating", shop_id |-> ratings[r].shop_id])
    /\ UNCHANGED <<shops, nextRatingId, likes, nextLikeId>>

(* The rest of delete_rating: the shop row, expired by the first commit, is
   read again, the average is queried, and the second commit writes both. *)
delete_rating_recompute(i) ==
    /\ txs[i].op = "delete_rating"
    /\ LET s == txs[i].shop_id
       IN  shops' = [shops EXCEPT ![s] = UnratedShop(@, ratings, s)]
    /\ End(i, "delete_rating", 204)
    /\ UNCHANGED <<ratings, nextRatingId, likes, nextLikeId>>

(* A storage fault ends the request of slot i: what it has not committed is
   rolled back, what it has committed stands. *)
(* The two reads step by step: the sweep and the query run at one time, the
   rows the query loaded are turned into the response (ShopRead.from_shop,
   which reads Shop.is_expired and so the clock again) at a later one. *)
list_shops_begin(i, a, c) ==
    LET swept == Sweep(shops, now)
    IN  /\ Idle(i)
        /\ Hold(i, [op |-> "list_shops",
                    rows |-> [s \in Listed(swept, a, c) |-> swept[s]]])
        /\ shops' = swept
        /\ UNCHANGED <<ratings, nextRatingId, likes, nextLikeId>>

get_shop_begin(i, s) ==
    LET swept == Sweep(shops, now)
    IN  /\ Idle(i)
        /\ IF s \in DOMAIN shops
           THEN Hold(i, [op |-> "get_shop", rows |-> (s :> swept[s])])
           ELSE /\ resp' = Response("get_shop", 404)
                /\ page' = NoPage
                /\ UNCHANGED <<workload, now, ticks, categories, nextShopId,
                               txs, rest>>
        /\ shops' = swept
        /\ UNCHANGED <<ratings, nextRatingId, likes, nextLikeId>>

read_end(i) ==
    /\ txs[i].op \in {"list_shops", "get_shop"}
    /\ resp' = Response(txs[i].op, 200)
    /\ page' = [s \in DOMAIN txs[i].rows |-> ShopRead(txs[i].rows[s], now)]
    /\ txs' = [txs EXCEPT ![i] = NoTx]
    /\ UNCHANGED <<workload, now, ticks, categories, shops, nextShopId,
                   ratings, nextRatingId, likes, nextLikeId, rest>>

Fault(i) ==
    /\ ~Idle(i)
    /\ End(i, txs[i].op, 500)
    /\ UNCHANGED <<shops, ratings, nextRatingId, likes, nextLikeId>>

----------------------------------------------------------------------------
(* Specifications. *)

ShopRequest ==
    \/ \E u \in Users, c \in CategoryIds, m \in Months : create_shop(u, c, m)
    \/ \E u \in Users, s \in ShopIds, c \in CategoryIds, m \in Months :
           update_shop(u, s, c, m)
    \/ \E u \in Users, s \in ShopIds, f \in BOOLEAN : toggle_shop_featured(u, s, f)
    \/ \E u \in Users, s \in ShopIds, m \in Months : activate_shop(u, s, m)
    \/ \E u \in Users, s \in ShopIds : deactivate_shop(u, s)
    \/ \E u \in Users, s \in ShopIds : delete_shop(u, s)
    \/ \E a \in IsActiveParams, c \in CategoryIds \cup {NULL} : list_shops(a, c)
    \/ \E s \in ShopIds : get_shop(s)

RatingUpdates == RatingValues \cup {Unset, NULL}

RatingRequest ==
    \/ \E u \in Users, s \in RequestedShopIds, v \in RatingValues : create_rating(u, s, v)
    \/ \E u \in Users, r \in 1 .. MaxRatingId, v \in RatingUpdates :
           update_rating(u, r, v)
    \/ \E u \in Users, r \in 1 .. MaxRatingId : delete_rating(u, r)

LikeRequest ==
    \/ \E u \in Users, s \in RequestedShopIds : create_like(u, s)
    \/ \E u \in Users, l \in 1 .. MaxLikeId : delete_like(u, l)

Next ==
    \/ Tick
    \/ workload = "shops" /\ ShopRequest
    \/ workload = "ratings" /\ RatingRequest
    \/ workload = "likes" /\ LikeRequest

Spec == Init /\ [][Next]_vars

(* One workload each. *)
InitShopsOnly == InitCommon /\ InitShops

NextShops == Tick \/ ShopRequest

SpecShops == InitShopsOnly /\ [][NextShops]_vars

(* The shops workload on a table that holds one row create_shop inserted
   a clock step ago, for one month. *)
InitListing ==
    /\ InitCommon
    /\ workload = "shops"
    /\ shops = (1 :> NewShop(StartDay - StepMonth, 1, 1))
    /\ nextShopId = 2

SpecListing == InitListing /\ [][NextShops]_vars

(* The requests that set a shop's expiry, with update requests that leave
   expiration_months out of the form. *)
FormMonths == Months \cup {Unset}

NextForms ==
    \/ Tick
    \/ \E u \in Users, c \in CategoryIds, m \in Months : create_shop(u, c, m)
    \/ \E u \in Users, s \in ShopIds, c \in CategoryIds, m \in FormMonths :
           update_shop(u, s, c, m)
    \/ \E u \in Users, s \in ShopIds, m \in Months : activate_shop(u, s, m)

SpecForms == InitShopsOnly /\ [][NextForms]_vars

(* Sorted and paged listings of a table that no request changes: each row
   is as create_shop or as the seed script inserts it. *)
InitPaging ==
    /\ InitCommon
    /\ workload = "shops"
    /\ shops \in [1 .. MaxShops -> {NewShop(StartDay, 1, 1), SeededShop(StartDay, 1)}]
    /\ nextShopId = MaxShops + 1

NextPaging ==
    \E f \in SortFields, o \in SortOrders, skip \in 0 .. MaxSkip, limit \in 1 .. MaxLimit :
        list_shops_paged(f, o, skip, limit)

SpecPaging == InitPaging /\ [][NextPaging]_vars

(* The auth router, while the clock runs. *)
InitAuth ==
    /\ InitCommon
    /\ workload = "auth"
    /\ shops = <<>>
    /\ nextShopId = 1

NextAuth ==
    \/ Tick
    \/ \E login \in RequestedLogins, code \in CodeValues : request_code(login, code)
    \/ \E login \in RequestedLogins, code \in CodeValues : verify_code(login, code)

SpecAuth == InitAuth /\ [][NextAuth]_vars

(* Reads step by step, while the clock runs and shops are created. *)
NextReads ==
    \/ Tick
    \/ \E u \in Users, c \in CategoryIds, m \in Months : create_shop(u, c, m)
    \/ \E i \in Slots, a \in IsActiveParams, c \in CategoryIds \cup {NULL} :
           list_shops_begin(i, a, c)
    \/ \E i \in Slots, s \in RequestedShopIds : get_shop_begin(i, s)
    \/ \E i \in Slots : read_end(i)

SpecReads == InitListing /\ [][NextReads]_vars

(* The requests that write a shop's category_id and the categories. *)
NextCategories ==
    \/ \E u \in Users, c \in CategoryIds, m \in Months : create_shop(u, c, m)
    \/ \E u \in Users, s \in ShopIds, c \in CategoryIds, m \in Months :
           update_shop(u, s, c, m)
    \/ \E u \in Users, taken \in BOOLEAN : create_category(u, taken)
    \/ \E u \in Users, c \in CategoryIds : delete_category(u, c)

SpecCategories == InitShopsOnly /\ [][NextCategories]_vars

(* The shops workload with reads that may fail in the sweep. *)
NextFaults ==
    \/ NextShops
    \/ \E op \in {"list_shops", "get_shop"}, done \in SUBSET ShopIds :
           sweep_fault(op, done)

SpecFaults == InitListing /\ [][NextFaults]_vars

InitRatings == InitCommon /\ InitPublic /\ workload = "ratings"

InitLikes == InitCommon /\ InitPublic /\ workload = "likes"

SpecLikes == InitLikes /\ [][LikeRequest]_vars

(* The likes router, or the ratings router, step by step. *)
InitSteps == InitCommon /\ InitPublic

Begin(i) ==
    \/ /\ workload = "likes"
       /\ \/ \E u \in Users, s \in RequestedShopIds : create_like_begin(i, u, s)
          \/ \E u \in Users, l \in 1 .. MaxLikeId : delete_like_begin(i, u, l)
    \/ /\ workload = "ratings"
       /\ \/ \E u \in Users, s \in RequestedShopIds, v \in RatingValues :
                 create_rating_begin(i, u, s, v)
          \/ \E u \in Users, r \in 1 .. MaxRatingId : delete_rating_begin(i, u, r)

Finish(i) ==
    \/ create_like_commit(i)
    \/ delete_like_commit(i)
    \/ create_rating_commit(i)
    \/ delete_rating_recompute(i)

(* One request at a time; a request may fail at any of its steps. *)
NextSerial ==
    \/ AllIdle /\ \E i \in Slots : Begin(i)
    \/ \E i \in Slots : Finish(i)
    \/ \E i \in Slots : Fault(i)

SpecSerial == InitSteps /\ [][NextSerial]_vars

(* Requests interleave; none fails. *)
NextRace ==
    \/ \E i \in Slots : Begin(i)
    \/ \E i \in Slots : Finish(i)

SpecRace == InitSteps /\ [][NextRace]_vars

SpecRatings == InitRatings /\ [][RatingRequest]_vars

----------------------------------------------------------------------------
(* Properties of the shop lifecycle. *)

Admins == {u \in Users : Role(u) = "admin"}

Read ==
    \/ \E a \in IsActiveParams, c \in CategoryIds \cup {NULL} : list_shops(a, c)
    \/ \E s \in ShopIds : get_shop(s)

(* C1: when a list_shops or get_shop request that ran at time now has
   completed, no shop row is active with a non-null expires_at <= now. *)
SweepInvariant ==
    [][Read => \A s \in DOMAIN shops' :
                  ~(shops'[s].is_active /\ shops'[s].expires_at # NULL
                                        /\ shops'[s].expires_at <= now')]_vars

(* A read has just completed and left two shops inactive whose expiry had
   come: one exactly at the time of the read, the other before it. *)
SweepInvariantWitness ==
    /\ resp.op \in {"list_shops", "get_shop"}
    /\ \E s, x \in DOMAIN shops :
          /\ ~shops[s].is_active /\ shops[s].expires_at = now
          /\ shops[s].updated_at < now
          /\ ~shops[x].is_active /\ shops[x].expires_at # NULL
          /\ shops[x].expires_at < now

(* C2: a successful activate_shop(shop, m) at time T leaves is_active true,
   expiration_months = m and expires_at = T + m months, whatever the row
   held before. *)
ActivateFromNow ==
    [][\A u \in Admins, s \in ShopIds, m \in Months :
          (s \in DOMAIN shops /\ activate_shop(u, s, m)) =>
              /\ shops'[s].is_active
              /\ shops'[s].expiration_months = m
              /\ shops'[s].expires_at = AddMonths(now, m)]_vars

(* A shop was re-activated later than it was created, for a period whose
   end differs from the one counted from its creation. *)
ActivateFromNowWitness ==
    /\ resp = Response("activate_shop", 200)
    /\ \E s \in DOMAIN shops :
          /\ shops[s].is_active
          /\ shops[s].activated_at = now /\ shops[s].created_at < now
          /\ shops[s].expires_at = AddMonths(now, shops[s].expiration_months)
          /\ shops[s].expires_at # AddMonths(shops[s].created_at, shops[s].expiration_months)

(* C3: a shop's expires_at, when set, is the time of the shop's last
   activation event plus expiration_months months. *)
ExpiryFromLastActivation ==
    \A s \in DOMAIN shops :
        shops[s].expires_at # NULL =>
            shops[s].expires_at = AddMonths(shops[s].activated_at, shops[s].expiration_months)

(* C9: a shop whose expires_at is NULL is not expired at any time, and its
   is_active goes from true to false in a deactivate_shop step only. *)
NullNeverExpires ==
    [][\A s \in DOMAIN shops :
          shops[s].expires_at = NULL =>
              /\ ~is_expired(shops[s], now) /\ ~is_expired(shops[s], now')
              /\ (shops[s].is_active /\ s \in DOMAIN shops' /\ ~shops'[s].is_active)
                     => \E u \in Admins : deactivate_shop(u, s)]_vars

(* Reads have swept after the clock ran as far as it goes, and the shop
   without an expiry is still active. *)
NullNeverExpiresWitness ==
    /\ resp.op \in {"list_shops", "get_shop"}
    /\ ticks = MaxTicks
    /\ \E s \in DOMAIN shops :
          shops[s].expires_at = NULL /\ shops[s].is_active /\ shops[s].created_at < now

(* C10: is_active goes from true to false in a sweep (a read) or a
   deactivate_shop step only, and from false to true in an activate_shop
   step only, which sets expires_at to now + months in the same step. *)
ActiveFlips ==
    [][\A s \in DOMAIN shops \cap DOMAIN shops' :
          /\ (shops[s].is_active /\ ~shops'[s].is_active) =>
                 (Read \/ \E u \in Admins : deactivate_shop(u, s))
          /\ (~shops[s].is_active /\ shops'[s].is_active) =>
                 \E u \in Admins, m \in Months :
                     /\ activate_shop(u, s, m)
                     /\ shops'[s].expires_at = AddMonths(now', m)]_vars

(* A shop that the sweep had deactivated on its expiry is active again,
   with an expiry counted from the activation. *)
ActiveFlipsWitness ==
    /\ resp = Response("activate_shop", 200)
    /\ \E s \in DOMAIN shops :
          /\ shops[s].is_active /\ shops[s].activated_at = now
          /\ shops[s].created_at < now
          /\ shops[s].expires_at > now
          /\ AddMonths(shops[s].created_at, 1) <= now

----------------------------------------------------------------------------
(* Properties of the listing and of the admin guard. *)

(* Shop s is as create_shop made it for one month, but for what the sweep
   did to it. *)
CreatedForOneMonth(s) ==
    [shops[s] EXCEPT !.is_active = TRUE] =
        NewShop(shops[s].created_at, 1, shops[s].category_id)

ListedInactiveExpired(s) ==
    /\ s \in DOMAIN page'
    /\ ~page'[s].is_active
    /\ page'[s].is_expired

(* C11, as amended: a shop created with expiration_months = 1 and touched
   by nothing else is, after its expires_at, returned by a listing that asks
   for is_active = false (and has no other filter that excludes it), with
   is_active = false and is_expired = true; a listing without is_active
   does not return it. *)
ExpiredListedWhenAsked ==
    [][\A s \in DOMAIN shops :
          (CreatedForOneMonth(s) /\ now > shops[s].expires_at) =>
              /\ \A c \in {NULL, shops[s].category_id} :
                     list_shops(<<FALSE>>, c) => ListedInactiveExpired(s)
              /\ \A c \in CategoryIds \cup {NULL} :
                     list_shops(<<>>, c) => s \notin DOMAIN page']_vars

(* A listing has returned such a shop, inactive and expired. *)
ExpiredListedWhenAskedWitness ==
    /\ resp = Response("list_shops", 200)
    /\ \E s \in DOMAIN page :
          /\ CreatedForOneMonth(s)
          /\ page[s].expires_at < now
          /\ ~page[s].is_active /\ page[s].is_expired
          /\ page[s].updated_at = page[s].created_at

(* C11, as stated: a listing request made after expires_at returns the
   shop, with is_active = false and is_expired = true. *)
ExpiredListed ==
    [][\A s \in DOMAIN shops :
          (CreatedForOneMonth(s) /\ now > shops[s].expires_at
              /\ list_shops(<<>>, NULL)) => ListedInactiveExpired(s)]_vars

(* C12: a listing without is_active returns only active shops and none
   whose expires_at had come when the sweep ran; a listing with
   is_active = b returns only shops whose is_active is b. *)
ListedByActive ==
    [][\A a \in IsActiveParams, c \in CategoryIds \cup {NULL} :
          list_shops(a, c) =>
              \A s \in DOMAIN page' :
                  /\ a = <<>> =>
                        /\ page'[s].is_active
                        /\ ~(shops[s].expires_at # NULL /\ shops[s].expires_at <= now)
                  /\ a # <<>> => page'[s].is_active = a[1]]_vars

(* A listing has returned an active shop and left out one whose expiry came
   at the very time of the request. *)
ListedByActiveWitness ==
    /\ resp = Response("list_shops", 200)
    /\ \E s \in DOMAIN page : page[s].is_active
    /\ \A s \in DOMAIN page : page[s].is_active
    /\ \E x \in DOMAIN shops \ DOMAIN page :
          ~shops[x].is_active /\ shops[x].expires_at = now /\ shops[x].updated_at < now

(* C13: a listing with a category_id that no category has is answered 404. *)
UnknownCategoryNotFound ==
    [][\A a \in IsActiveParams, c \in CategoryIds \ categories :
          list_shops(a, c) => resp'.status = 404]_vars

(* A request of the shops router that needs the admin role, made by u. *)
AdminRequestBy(u) ==
    \/ \E c \in CategoryIds, m \in Months : create_shop(u, c, m)
    \/ \E s \in ShopIds, c \in CategoryIds, m \in Months : update_shop(u, s, c, m)
    \/ \E s \in ShopIds, f \in BOOLEAN : toggle_shop_featured(u, s, f)
    \/ \E s \in ShopIds, m \in Months : activate_shop(u, s, m)
    \/ \E s \in ShopIds : deactivate_shop(u, s)
    \/ \E s \in ShopIds : delete_shop(u, s)

(* C14: the six admin operations issued by a principal who is not an admin
   are answered 403 and leave every shop as it was; a change of is_active
   in an activate_shop or deactivate_shop step is an admin's request. *)
AdminOnly ==
    [][/\ \A u \in Users :
             (Role(u) # "admin" /\ AdminRequestBy(u)) =>
                 /\ resp'.status = 403
                 /\ shops' = shops /\ nextShopId' = nextShopId
       /\ \A s \in DOMAIN shops \cap DOMAIN shops' :
             (resp'.op \in {"activate_shop", "deactivate_shop"}
                 /\ shops'[s].is_active # shops[s].is_active) =>
                 \E u \in Users :
                    /\ Role(u) = "admin"
                    /\ \/ deactivate_shop(u, s)
                       \/ \E m \in Months : activate_shop(u, s, m)]_vars

(* A client asked to deactivate while a shop was active, was refused, and
   the shop is still active. *)
AdminOnlyWitness ==
    /\ resp = Response("deactivate_shop", 403)
    /\ \E s \in DOMAIN shops : shops[s].is_active /\ shops[s].updated_at = shops[s].created_at
    /\ \E u \in Users : Role(u) # "admin"

(* C23: a successful deactivate_shop changes is_active (to false) and
   updated_at of the one shop and nothing else: its other fields and every
   other shop are as before; it succeeds on a shop that is already
   inactive. *)
DeactivateFrame ==
    [][\A u \in Users, s \in ShopIds :
          (deactivate_shop(u, s) /\ Role(u) = "admin" /\ s \in DOMAIN shops) =>
              /\ resp'.status = 200
              /\ DOMAIN shops' = DOMAIN shops
              /\ \A x \in DOMAIN shops \ {s} : shops'[x] = shops[x]
              /\ ~shops'[s].is_active
              /\ shops'[s].updated_at = now
              /\ \A f \in DOMAIN shops[s] \ {"is_active", "updated_at"} :
                    shops'[s][f] = shops[s][f]]_vars

(* A shop that a read had swept at its expiry was deactivated by an admin
   afterwards: the request succeeded and the expiry is still there. *)
DeactivateFrameWitness ==
    /\ resp = Response("deactivate_shop", 200)
    /\ \E s \in DOMAIN shops :
          /\ ~shops[s].is_active
          /\ shops[s].updated_at = now
          /\ shops[s].created_at < now
          /\ shops[s].expires_at # NULL /\ shops[s].expires_at <= now

(* C29: a sweep at time now sets is_active to false on the shops that were
   active with a non-null expires_at <= now and changes nothing else: every
   other shop and every other field is as before, and a second sweep at the
   same time changes nothing. *)
SweepFrame ==
    [][Read =>
          /\ DOMAIN shops' = DOMAIN shops
          /\ \A s \in DOMAIN shops :
                shops'[s] =
                    IF shops[s].is_active /\ shops[s].expires_at # NULL
                                          /\ shops[s].expires_at <= now
                    THEN [shops[s] EXCEPT !.is_active = FALSE]
                    ELSE shops[s]
          /\ Sweep(shops', now) = shops']_vars

(* A read has swept one shop, whose updated_at is older than the read, and
   left alone another one, which is active and does not expire. *)
SweepFrameWitness ==
    /\ resp.op \in {"list_shops", "get_shop"}
    /\ resp.status = 200
    /\ \E s, x \in DOMAIN shops :
          /\ ~shops[s].is_active /\ shops[s].expires_at # NULL
          /\ shops[s].expires_at <= now /\ shops[s].updated_at < now
          /\ shops[x].is_active
          /\ shops[x].expires_at = NULL \/ shops[x].expires_at > now

(* C25: an update_shop request that supplies no expiration_months leaves
   the shop's expiration_months and expires_at as they were. *)
UpdateKeepsExpiry ==
    [][\A u \in Users, s \in ShopIds, c \in CategoryIds :
          (update_shop(u, s, c, Unset) /\ resp'.status = 200) =>
              /\ shops'[s].expiration_months = shops[s].expiration_months
              /\ shops'[s].expires_at = shops[s].expires_at]_vars

(* C26: no response of get_shop or list_shops shows a shop with is_active
   true and is_expired true. *)
NoActiveExpired ==
    \A s \in DOMAIN page : ~(page[s].is_active /\ page[s].is_expired)

(* The ids of a page, and whether a sequence of ids names no shop twice. *)
Shown(ids) == {ids[i] : i \in DOMAIN ids}

NoRepeat(ids) == \A i, j \in DOMAIN ids : i # j => ids[i] # ids[j]

(* C27: for every sort combination but (rating, desc) a listing is ordered
   monotonically by the chosen field in the chosen direction, and a
   repetition of the request on the unchanged store returns the same
   sequence; for (rating, desc) with skip = 0 and no more matching shops
   than limit, the listing holds exactly the matching shops. *)
SortedAndRepeatable ==
    query.sort_by # "none" =>
        LET ids == query.ids
        IN  IF is_default_sort(query.sort_by, query.sort_order)
            THEN (query.skip = 0
                    /\ Cardinality(Listed(shops, <<>>, NULL)) <= query.limit) =>
                     /\ Shown(ids) = Listed(shops, <<>>, NULL)
                     /\ NoRepeat(ids)
            ELSE /\ \A i, j \in DOMAIN ids :
                       i < j => IF query.sort_order = "asc"
                                THEN NotAbove(shops[ids[i]], shops[ids[j]], query.sort_by)
                                ELSE NotAbove(shops[ids[j]], shops[ids[i]], query.sort_by)
                 /\ query.repeats => ids = query.previous

(* C28: paging through list_shops on the unchanged store with consecutive
   windows shows no shop twice and, when the windows have covered the
   matching shops, has shown every one of them, under every sort
   combination. *)
PagesPartition ==
    (query.sort_by # "none" /\ query.paging) =>
        /\ NoRepeat(query.seen)
        /\ query.skip + query.limit >= Cardinality(Listed(shops, <<>>, NULL)) =>
               Shown(query.seen) = Listed(shops, <<>>, NULL)

OneUserPerLogin(users) ==
    \A a, b \in DOMAIN users : users[a].login = users[b].login => a = b

(* C30, as amended: a verification succeeds exactly when a row matches
   login and code with is_used false and expires_at later than now; it then
   marks the latest such row used in the same step, and no step makes a used
   row unused, so no row is accepted twice: a verification with a (login,
   code) that was verified before is rejected unless another row with that
   login and code is unused and unexpired; at most one User row per login
   exists. *)
RowSingleUse ==
    [][/\ \A login \in RequestedLogins, code \in CodeValues :
             verify_code(login, code) =>
                 LET ok == {i \in DOMAIN codes :
                               /\ codes[i].login = login /\ codes[i].code = code
                               /\ ~codes[i].is_used
                               /\ codes[i].expires_at.day >= now}
                 IN  /\ resp'.status = IF ok = {} THEN 400 ELSE 200
                     /\ ok = {} => codes' = codes /\ accounts' = accounts
                     /\ ok # {} =>
                           \E i \in ok :
                              /\ \A j \in ok : j <= i
                              /\ codes' = [codes EXCEPT ![i].is_used = TRUE]
                              /\ \E a \in DOMAIN accounts' : accounts'[a].login = login
       /\ \A i \in DOMAIN codes : codes[i].is_used => codes'[i].is_used
       /\ OneUserPerLogin(accounts')]_vars

(* Two rows with the same login and code have both been used, each by one
   of two successful verifications, and the login has its one account. *)
RowSingleUseWitness ==
    /\ resp = Response("verify_code", 200)
    /\ \E i, j \in DOMAIN codes :
          /\ i # j
          /\ codes[i].login = codes[j].login /\ codes[i].code = codes[j].code
          /\ codes[i].is_used /\ codes[j].is_used
    /\ Len(accounts) = 1

(* C30: a verification with a (login, code) that a verification has
   accepted before is rejected, and at most one User row per login exists. *)
CodeSingleUse ==
    [][/\ \A login \in RequestedLogins, code \in CodeValues :
             (/\ verify_code(login, code)
              /\ \E i \in DOMAIN codes :
                     /\ codes[i].login = login /\ codes[i].code = code
                     /\ codes[i].is_used) =>
                 resp'.status = 400
       /\ OneUserPerLogin(accounts')]_vars

(* C22: each shop's category_id references an existing Category, whatever
   create_shop, update_shop, create_category and delete_category requests
   have run. *)
CategoryExists ==
    \A s \in DOMAIN shops : shops[s].category_id \in categories

(* The delete of a category that a shop references was refused; the
   category was created by a request and is the only one left. *)
CategoryExistsWitness ==
    /\ resp = Response("delete_category", 500)
    /\ categories = {2}
    /\ \E s \in DOMAIN shops : shops[s].category_id = 2

(* C21: when the store fails during the sweep, no shop is left deactivated
   by that sweep and the read is answered with the error, not with a list. *)
SweepAllOrNothing ==
    [][\A op \in {"list_shops", "get_shop"}, done \in SUBSET ShopIds :
          sweep_fault(op, done) =>
              /\ shops' = shops
              /\ resp'.status = 500
              /\ page' = NoPage]_vars

(* A read has failed in a sweep whose batch held two shops; both are still
   active. *)
SweepAllOrNothingWitness ==
    /\ resp.status = 500
    /\ resp.op \in {"list_shops", "get_shop"}
    /\ \E s, x \in DOMAIN shops :
          /\ s # x
          /\ SweepSelects(shops[s], now)
          /\ SweepSelects(shops[x], now)

----------------------------------------------------------------------------
(* Properties of the rating aggregate. *)

(* The shops of the ratings workload that start with no Rating row,
   rating 0.0 and rating_count 0. *)
StartUnrated == DOMAIN shops \ {SeedShopId}

Succeeded == resp.status \in {200, 201, 204}

(* The mean of the persisted ratings of shop s, 0.0 when there are none. *)
MeanOf(rs, s) ==
    LET ids == {r \in DOMAIN rs : rs[r].shop_id = s}
    IN  IF ids = {} THEN <<0, 1>>
        ELSE Frac(SumRatings(rs, ids), Cardinality(ids))

(* C4: after any sequence of successful create_rating, update_rating and
   delete_rating requests, the stored rating of every shop (that started
   unrated at 0.0) is the mean of the shop's persisted Rating rows, and
   0.0 when there are none. *)
RatingIsMean ==
    (workload = "ratings" /\ Succeeded) =>
        \A s \in StartUnrated : shops[s].rating = MeanOf(ratings, s)

(* C24: a successful update_rating by the owner that changes the value
   leaves the shop's rating_count as it was and sets the shop's rating to
   the mean of its persisted ratings, the new value among them. *)
UpdateRecomputes ==
    [][\A u \in Users, r \in DOMAIN ratings, v \in RatingValues :
          (/\ update_rating(u, r, v)
           /\ resp'.status = 200
           /\ v # ratings[r].rating
           /\ ratings[r].shop_id \in DOMAIN shops) =>
              LET s == ratings[r].shop_id
              IN  /\ ratings[r].user_id = u
                  /\ ratings'[r].rating = v
                  /\ shops'[s].rating_count = shops[s].rating_count
                  /\ shops'[s].rating = MeanOf(ratings', s)]_vars

(* The owner has changed one of the two ratings of a shop, and the shop's
   rating is the mean of the two values that are persisted now. *)
UpdateRecomputesWitness ==
    /\ resp = Response("update_rating", 200)
    /\ \E r, q \in DOMAIN ratings :
          /\ r # q
          /\ ratings[r].shop_id = ratings[q].shop_id
          /\ ratings[r].rating # ratings[q].rating
          /\ ratings[r].shop_id \in DOMAIN shops
          /\ shops[ratings[r].shop_id].rating =
                 Frac(ratings[r].rating + ratings[q].rating, 2)

(* C5: on shops that start with no ratings and rating_count = 0,
   rating_count is the number of persisted Rating rows of the shop. *)
RatingCountIsRows ==
    workload = "ratings" =>
        \A s \in StartUnrated :
            shops[s].rating_count = Cardinality({r \in DOMAIN ratings : ratings[r].shop_id = s})

(* Two users rated such a shop and one of them deleted the rating (the
   seeded shop still has the rating it was seeded with: nobody rated it). *)
RatingCountIsRowsWitness ==
    /\ workload = "ratings"
    /\ resp = Response("delete_rating", 204)
    /\ nextRatingId = 3
    /\ shops[SeedShopId].rating = <<9, 2>>
    /\ \E s \in StartUnrated :
          /\ shops[s].rating_count = 1
          /\ Cardinality({r \in DOMAIN ratings : ratings[r].shop_id = s}) = 1

(* C6: create_rating by a user who already has a Rating row for the shop is
   rejected with an error and changes neither the rows nor the shops. *)
DuplicateRatingRejected ==
    [][\A u \in Users, s \in RequestedShopIds, v \in RatingValues :
          ((\E r \in DOMAIN ratings :
                ratings[r].user_id = u /\ ratings[r].shop_id = s)
             /\ create_rating(u, s, v)) =>
              /\ resp'.status = 400
              /\ ratings' = ratings
              /\ shops' = shops]_vars

(* A second create_rating was refused while the first rating stands. *)
DuplicateRatingRejectedWitness ==
    /\ resp = Response("create_rating", 400)
    /\ \E r \in DOMAIN ratings : shops[ratings[r].shop_id].rating_count >= 1

(* What a successful delete_rating of row r leaves, apart from how many
   ratings the shop is left with. *)
Deleted(r) ==
    LET s == ratings[r].shop_id
    IN  /\ r \notin DOMAIN ratings'
        /\ shops'[s].rating = MeanOf(ratings', s)
        /\ shops'[s].rating_count = shops[s].rating_count - 1

RowCount(rs, s) == Cardinality({r \in DOMAIN rs : rs[r].shop_id = s})

(* C7, as amended: a successful delete_rating removes the row, sets the
   shop's rating to the mean of the ratings that remain (0.0 when none
   remain) and decrements rating_count by exactly 1; deleting the last
   rating of a shop whose rating_count was its number of Rating rows leaves
   rating = 0.0 and rating_count = 0. *)
DeleteRecomputes ==
    [][\A r \in DOMAIN ratings :
          delete_rating(ratings[r].user_id, r) =>
              LET s == ratings[r].shop_id
              IN  /\ Deleted(r)
                  /\ (RowCount(ratings', s) = 0
                        /\ shops[s].rating_count = RowCount(ratings, s)) =>
                         /\ shops'[s].rating = <<0, 1>>
                         /\ shops'[s].rating_count = 0]_vars

(* Two ratings were created on a shop that started unrated and both were
   deleted, the last one just now (nobody rated the seeded shop, which
   still has the rating it was seeded with). *)
DeleteRecomputesWitness ==
    /\ resp = Response("delete_rating", 204)
    /\ nextRatingId = 3
    /\ DOMAIN ratings = {}
    /\ shops[SeedShopId].rating = <<9, 2>>
    /\ \E s \in StartUnrated :
          shops[s].rating = <<0, 1>> /\ shops[s].rating_count = 0

(* C7, as stated: ... deleting a shop's last rating leaves rating = 0.0 and
   rating_count = 0. *)
DeleteLastLeavesZero ==
    [][\A r \in DOMAIN ratings :
          delete_rating(ratings[r].user_id, r) =>
              LET s == ratings[r].shop_id
              IN  /\ Deleted(r)
                  /\ RowCount(ratings', s) = 0 =>
                         /\ shops'[s].rating = <<0, 1>>
                         /\ shops'[s].rating_count = 0]_vars

(* C8: update_rating and delete_rating by anyone but the rating's creator,
   an admin included, are answered 403 and change neither the rows nor the
   shops. *)
NonOwnerForbidden ==
    [][\A u \in Users, r \in DOMAIN ratings :
          (ratings[r].user_id # u
             /\ (delete_rating(u, r)
                   \/ \E v \in RatingUpdates : update_rating(u, r, v))) =>
              /\ resp'.status = 403
              /\ ratings' = ratings
              /\ shops' = shops]_vars

(* The admin was refused: every rating is a client's, so the refused
   principal of the last request, who is not its creator, is the admin. *)
NonOwnerForbiddenWitness ==
    /\ resp.op \in {"update_rating", "delete_rating"}
    /\ resp.status = 403
    /\ Cardinality(DOMAIN ratings) = 1
    /\ \A r \in DOMAIN ratings : Role(ratings[r].user_id) = "client"
    /\ Users = {1, 2}

(* C19: create_rating for a shop_id that no shop has is answered 404 and
   persists no Rating row. *)
MissingShopRatingNotFound ==
    [][\A u \in Users, v \in RatingValues, s \in RequestedShopIds \ DOMAIN shops :
          create_rating(u, s, v) =>
              /\ resp'.status = 404
              /\ ratings' = ratings]_vars

----------------------------------------------------------------------------
(* Properties of the like counter. *)

(* The shops of the likes workload that start with no Like row and
   like_count 0. *)
StartUnliked == DOMAIN shops \ {SeedShopId}

(* C18: after create_like and delete_like requests run one at a time, on
   shops that start with no likes and like_count = 0, like_count is the
   number of Like rows of the shop and is not negative; a request that is
   not answered 200 changes neither the rows nor the shops. *)
LikeCountIsRows ==
    [][/\ \A s \in StartUnliked :
             /\ shops'[s].like_count = Cardinality(RowsOf(likes', s))
             /\ shops'[s].like_count >= 0
       /\ resp'.status # 200 => (likes' = likes /\ shops' = shops)]_vars

(* Both users liked such a shop and the client's like was deleted (nobody
   liked the seeded shop, which has the count it was seeded with). *)
LikeCountIsRowsWitness ==
    /\ workload = "likes"
    /\ resp = Response("delete_like", 200)
    /\ nextLikeId = 3
    /\ shops[SeedShopId].like_count = SeedLikeCount
    /\ \E s \in StartUnliked :
          /\ shops[s].like_count = 1
          /\ \E l \in DOMAIN likes : likes[l].shop_id = s /\ Role(likes[l].user_id) = "admin"

(* C20: create_like for a shop_id that no shop has is answered 404, and no
   Like row and no like_count change is committed. *)
MissingShopLikeNotFound ==
    [][\A u \in Users, s \in RequestedShopIds \ DOMAIN shops :
          create_like(u, s) =>
              /\ resp'.status = 404
              /\ likes' = likes
              /\ shops' = shops]_vars

----------------------------------------------------------------------------
(* Properties of the handlers run step by step. *)

(* C15: the insertion or deletion of a Rating or Like row and the change of
   the shop's counter are committed together: no commit changes the rows of
   a shop without its rating_count (like_count), or the reverse. *)
RowsAndCountersTogether ==
    [][\A s \in DOMAIN shops :
          /\ (RowsOf(ratings', s) # RowsOf(ratings, s))
                 <=> (shops'[s].rating_count # shops[s].rating_count)
          /\ (RowsOf(likes', s) # RowsOf(likes, s))
                 <=> (shops'[s].like_count # shops[s].like_count)]_vars

(* C16: once all interleaved requests have finished, like_count is the
   number of Like rows of the shop and rating_count the number of its Rating
   rows (on the shops that start with none). *)
NoLostUpdate ==
    AllIdle =>
        \A s \in StartUnrated :
            /\ shops[s].like_count = Cardinality(RowsOf(likes, s))
            /\ shops[s].rating_count = Cardinality(RowsOf(ratings, s))

OnePerPair(rows) ==
    \A x, y \in DOMAIN rows :
        (rows[x].user_id = rows[y].user_id /\ rows[x].shop_id = rows[y].shop_id)
            => x = y

(* C17: there is at most one Like row and at most one Rating row per
   (user_id, shop_id) pair, also when requests interleave. *)
UniquePerPair == OnePerPair(likes) /\ OnePerPair(ratings)

====
